---- MODULE Spec2Model ----
(***************************************************************************)
(* Post-processing pipeline of the 7-day weather forecast service:         *)
(* longest-run analysis, rule-based event detection (detect_events) and    *)
(* priority-ordered summary composition (build_summary) of                 *)
(* src/weather_events.py, as driven by run_prediction of                   *)
(* src/predict_service.py.                                                 *)
(*                                                                         *)
(* Python lists are modelled as sequences; a list index i of the source is *)
(* position i + 1 of the sequence, and every day index stored in a record  *)
(* (start_idx, end_idx, days) keeps the source's 0-based value.            *)
(* Temperatures and wind speeds are integers; a mean of n values is kept   *)
(* as the pair (sum, n), compared against a threshold t as sum >= t * n.   *)
(***************************************************************************)
EXTENDS Integers, Sequences, FiniteSets, TLC

VARIABLES pc, city_name, end_date, forecast, events, text, indices, run,
          city_code, env, window, preds, exc, detail, response, calls

vars ==
    <<pc, city_name, end_date, forecast, events, text, indices, run,
      city_code, env, window, preds, exc, detail, response, calls>>

(* the request, its surroundings and what the handler has produced so far *)
reqVars == <<city_code, env, window, preds, detail, response>>

----------------------------------------------------------------------------
(* Program constants *)

HORIZON == 7

NUM_CLASSES == 5

HEATWAVE_TEMP == 35

HEATWAVE_MIN_DAYS == 3

HOT_DRY_TEMP == 33

HOT_DRY_MAX_RAIN == 1

COMFORT_MIN_TEMP == 22

COMFORT_MAX_TEMP == 28

COMFORT_MAX_RAIN == 1

LONG_RAIN_MIN_LEVEL == 2

LONG_RAIN_MIN_LEN == 3

HEAVY_RAIN_LEVEL == 3

STRONG_WIND_LEVEL == 2

DEFAULT_BIAS == 3

CITY_TEMP_BIAS_BY_NAME ==
    [c \in {"Hanoi", "Da Nang", "Da Lat (Lam Dong)", "Ho Chi Minh City"} |->
        CASE c = "Hanoi" -> 2
          [] c = "Da Nang" -> 3
          [] c = "Da Lat (Lam Dong)" -> 1
          [] c = "Ho Chi Minh City" -> 4]

_get_bias(name) ==
    IF name \in DOMAIN CITY_TEMP_BIAS_BY_NAME
    THEN CITY_TEMP_BIAS_BY_NAME[name]
    ELSE DEFAULT_BIAS

----------------------------------------------------------------------------
(* Generic list helpers *)

RECURSIVE SumSeq(_)
SumSeq(s) == IF s = <<>> THEN 0 ELSE Head(s) + SumSeq(Tail(s))

RECURSIVE MaxSeq(_)
MaxSeq(s) ==
    IF Len(s) = 1 THEN s[1]
    ELSE LET m == MaxSeq(Tail(s)) IN IF s[1] >= m THEN s[1] ELSE m

(* [i for i, b in enumerate(flags) if b]: 0-based indices, ascending *)
RECURSIVE IndicesFrom(_, _)
IndicesFrom(flags, k) ==
    IF k > Len(flags) THEN <<>>
    ELSE IF flags[k] THEN <<k - 1>> \o IndicesFrom(flags, k + 1)
         ELSE IndicesFrom(flags, k + 1)

IndicesWhere(flags) == IndicesFrom(flags, 1)

----------------------------------------------------------------------------
(* _longest_run *)

RunStep(st, prev, cur) ==
    IF cur = prev + 1
    THEN [st EXCEPT !.cur_len = st.cur_len + 1]
    ELSE IF st.cur_len > st.max_len
         THEN [max_len |-> st.cur_len, cur_len |-> 1, start |-> cur,
               best_start |-> st.start, best_end |-> prev]
         ELSE [st EXCEPT !.cur_len = 1, !.start = cur]

RECURSIVE RunLoop(_, _, _)
RunLoop(idx, k, st) ==
    IF k >= Len(idx) THEN st
    ELSE RunLoop(idx, k + 1, RunStep(st, idx[k], idx[k + 1]))

(* variant: a later run of the same length replaces the first one *)
RunFinishLastWins(st) ==
    IF st.cur_len >= st.max_len
    THEN <<st.cur_len, st.start, st.start + st.cur_len - 1>>
    ELSE <<st.max_len, st.best_start, st.best_end>>

RunFinish(st) ==
    IF st.cur_len > st.max_len
    THEN <<st.cur_len, st.start, st.start + st.cur_len - 1>>
    ELSE <<st.max_len, st.best_start, st.best_end>>

_longest_run(idx) ==
    IF idx = <<>> THEN <<0, -1, -1>>
    ELSE RunFinish(RunLoop(idx, 1,
            [max_len |-> 1, cur_len |-> 1, start |-> idx[1],
             best_start |-> idx[1], best_end |-> idx[1]]))

----------------------------------------------------------------------------
(* detect_events *)

Column(fc, f) == [k \in 1..Len(fc) |-> fc[k][f]]

(* variant: a day of exactly the threshold temperature is not hot *)
HotIndicesStrict(temps) ==
    IndicesWhere([k \in 1..Len(temps) |-> temps[k] > HEATWAVE_TEMP])

HotIndices(temps) ==
    IndicesWhere([k \in 1..Len(temps) |-> temps[k] >= HEATWAVE_TEMP])

HasHeatwave(hw_len) == hw_len >= HEATWAVE_MIN_DAYS

MaxRain(rains) == IF rains # <<>> THEN MaxSeq(rains) ELSE 0

HasHotDry(temp_sum, n, max_rain) ==
    (temp_sum >= HOT_DRY_TEMP * n) /\ (max_rain <= HOT_DRY_MAX_RAIN)

HasComfort(temp_sum, n, max_rain) ==
    /\ COMFORT_MIN_TEMP * n <= temp_sum
    /\ temp_sum <= COMFORT_MAX_TEMP * n
    /\ max_rain <= COMFORT_MAX_RAIN

(* variant: only days of exactly the moderate level count as wet *)
WetIndicesModerateOnly(rains) ==
    IndicesWhere([k \in 1..Len(rains) |-> rains[k] = LONG_RAIN_MIN_LEVEL])

WetIndices(rains) ==
    IndicesWhere([k \in 1..Len(rains) |-> rains[k] >= LONG_RAIN_MIN_LEVEL])

(* variant: the comparison is inverted *)
HasLongRainInverted(lr_len) == lr_len < LONG_RAIN_MIN_LEN

HasLongRain(lr_len) == lr_len >= LONG_RAIN_MIN_LEN

HeavyRainDays(rains) ==
    IndicesWhere([k \in 1..Len(rains) |-> rains[k] >= HEAVY_RAIN_LEVEL])

(* variant: a dry week counts as showers *)
HasShowersAtMostOne(max_rain, has_heavy_rain, has_long_rain) ==
    (max_rain <= 1) /\ ~has_heavy_rain /\ ~has_long_rain

HasShowers(max_rain, has_heavy_rain, has_long_rain) ==
    (max_rain = 1) /\ ~has_heavy_rain /\ ~has_long_rain

StrongWindDays(winds) ==
    IndicesWhere([k \in 1..Len(winds) |-> winds[k] >= STRONG_WIND_LEVEL])

(* variant: thunderstorms need heavy rain *)
ThunderDaysHeavyOnly(rains, winds) ==
    IndicesWhere([k \in 1..Len(rains) |->
        rains[k] >= HEAVY_RAIN_LEVEL /\ winds[k] >= 2])

ThunderDays(rains, winds) ==
    IndicesWhere([k \in 1..Len(rains) |-> rains[k] >= 2 /\ winds[k] >= 2])

StormDays(rains, winds) ==
    IndicesWhere([k \in 1..Len(rains) |->
        rains[k] >= HEAVY_RAIN_LEVEL /\ winds[k] >= STRONG_WIND_LEVEL])

(* variant: both conditions are required *)
UrbanFloodRiskBoth(has_long_rain, heavy_rain_days) ==
    has_long_rain /\ (Len(heavy_rain_days) >= 2)

UrbanFloodRisk(has_long_rain, heavy_rain_days) ==
    has_long_rain \/ (Len(heavy_rain_days) >= 2)

(* variant: the comfortable record is left out of the report *)
EventReportNoComfortable(hw, hd, cf, lr, hr, sh, fl, sw, th, st) ==
    [heatwave |-> hw,
     hot_dry |-> hd,
     long_rain |-> lr,
     heavy_rain |-> hr,
     showers |-> sh,
     urban_flood_risk |-> fl,
     strong_wind |-> sw,
     thunderstorm |-> th,
     storm_risk |-> st]

EventReport(hw, hd, cf, lr, hr, sh, fl, sw, th, st) ==
    [heatwave |-> hw,
     hot_dry |-> hd,
     comfortable |-> cf,
     long_rain |-> lr,
     heavy_rain |-> hr,
     showers |-> sh,
     urban_flood_risk |-> fl,
     strong_wind |-> sw,
     thunderstorm |-> th,
     storm_risk |-> st]

RunRecord(has, s, e) == [has_event |-> has, start_idx |-> s, end_idx |-> e]

DaysRecord(days) == [has_event |-> Len(days) > 0, days |-> days]

FlagRecord(has) == [has_event |-> has]

detect_events(fc) ==
    LET temps == Column(fc, "temp_avg")
        rains == Column(fc, "rain_level")
        winds == Column(fc, "wind_level")
        n == Len(fc)
        hw == _longest_run(HotIndices(temps))
        temp_sum == SumSeq(temps)
        max_rain == MaxRain(rains)
        lr == _longest_run(WetIndices(rains))
        has_long_rain == HasLongRain(lr[1])
        heavy_rain_days == HeavyRainDays(rains)
        has_heavy_rain == Len(heavy_rain_days) > 0
    IN  EventReport(
            RunRecord(HasHeatwave(hw[1]), hw[2], hw[3]),
            FlagRecord(HasHotDry(temp_sum, n, max_rain)),
            FlagRecord(HasComfort(temp_sum, n, max_rain)),
            RunRecord(has_long_rain, lr[2], lr[3]),
            DaysRecord(heavy_rain_days),
            FlagRecord(HasShowers(max_rain, has_heavy_rain, has_long_rain)),
            FlagRecord(UrbanFloodRisk(has_long_rain, heavy_rain_days)),
            DaysRecord(StrongWindDays(winds)),
            DaysRecord(ThunderDays(rains, winds)),
            DaysRecord(StormDays(rains, winds)))

----------------------------------------------------------------------------
(* build_summary *)

(* f"{sum / n:.1f}": the mean in tenths, rounded half to even *)
Fmt1(sum, n) ==
    LET q == (10 * sum) \div n
        r == (10 * sum) % n
    IN  IF 2 * r > n THEN q + 1
        ELSE IF 2 * r < n THEN q
        ELSE IF q % 2 = 0 THEN q ELSE q + 1

(* Python's list[i]: negative i counts from the end, anything else raises *)
InRange(xs, i) == -Len(xs) <= i /\ i < Len(xs)

PyItem(xs, i) == IF i >= 0 THEN xs[i + 1] ELSE xs[Len(xs) + i + 1]

FeelSum(name, fc) ==
    SumSeq([k \in 1..Len(fc) |-> fc[k].heat_index + _get_bias(name)])

BaseSentence(name, ed, fc) ==
    [frag |-> "base", city |-> name, end_date |-> ed,
     avg_temp |-> Fmt1(SumSeq(Column(fc, "temp_avg")), Len(fc)),
     avg_feel |-> Fmt1(FeelSum(name, fc), Len(fc)),
     avg_wind |-> Fmt1(SumSeq(Column(fc, "wind_speed")), Len(fc))]

ImpactTier(name, fc) ==
    LET feel == FeelSum(name, fc)
        n == Len(fc)
    IN  IF feel >= 35 * n THEN "feel_very_hot"
        ELSE IF feel >= 30 * n THEN "feel_hot"
        ELSE IF feel >= 24 * n THEN "feel_pleasant"
        ELSE "feel_cool"

(* variant: a heavy-rain day is reported before a long rainy spell *)
RainBranchHeavyFirst(ev) ==
    IF ev.storm_risk.has_event THEN "storm_risk"
    ELSE IF ev.urban_flood_risk.has_event
         THEN IF ev.long_rain.has_event THEN "flood_long_rain" ELSE "flood"
    ELSE IF ev.heavy_rain.has_event THEN "heavy_rain"
    ELSE IF ev.long_rain.has_event THEN "long_rain"
    ELSE IF ev.showers.has_event THEN "showers"
    ELSE "none"

(* the branch of the if / elif chain of lines 239-282 that is taken *)
RainBranch(ev) ==
    IF ev.storm_risk.has_event THEN "storm_risk"
    ELSE IF ev.urban_flood_risk.has_event
         THEN IF ev.long_rain.has_event THEN "flood_long_rain" ELSE "flood"
    ELSE IF ev.long_rain.has_event THEN "long_rain"
    ELSE IF ev.heavy_rain.has_event THEN "heavy_rain"
    ELSE IF ev.showers.has_event THEN "showers"
    ELSE "none"

(* variant: the thunderstorm detail is not gated by storm_risk *)
ThunderBranchUngated(ev) == ev.thunderstorm.has_event

ThunderBranch(ev) == ev.thunderstorm.has_event /\ ~ev.storm_risk.has_event

(* variant: the strong-wind detail is not gated by storm_risk *)
WindBranchUngated(ev) == ev.strong_wind.has_event

WindBranch(ev) == ev.strong_wind.has_event /\ ~ev.storm_risk.has_event

(* variant: a heatwave or a hot dry week also counts as remarkable *)
NothingRemarkableChecksHeat(ev) ==
    /\ ~ev.storm_risk.has_event
    /\ ~ev.urban_flood_risk.has_event
    /\ ~ev.long_rain.has_event
    /\ ~ev.heavy_rain.has_event
    /\ ~ev.showers.has_event
    /\ ~ev.thunderstorm.has_event
    /\ ~ev.strong_wind.has_event
    /\ ~ev.heatwave.has_event
    /\ ~ev.hot_dry.has_event

(* variant: strong wind is not looked at *)
NothingRemarkableIgnoresWind(ev) ==
    /\ ~ev.storm_risk.has_event
    /\ ~ev.urban_flood_risk.has_event
    /\ ~ev.long_rain.has_event
    /\ ~ev.heavy_rain.has_event
    /\ ~ev.showers.has_event
    /\ ~ev.thunderstorm.has_event

NothingRemarkable(ev) ==
    /\ ~ev.storm_risk.has_event
    /\ ~ev.urban_flood_risk.has_event
    /\ ~ev.long_rain.has_event
    /\ ~ev.heavy_rain.has_event
    /\ ~ev.showers.has_event
    /\ ~ev.thunderstorm.has_event
    /\ ~ev.strong_wind.has_event

(* forecast[events[kind]["days"][0]]["date"] can be evaluated *)
FirstDayOk(fc, days) == days # <<>> /\ InRange(fc, days[1])

FirstDayDate(fc, days) == PyItem(fc, days[1]).date

SpanOk(fc, rec) == InRange(fc, rec.start_idx) /\ InRange(fc, rec.end_idx)

SpanDates(fc, rec) ==
    <<PyItem(fc, rec.start_idx).date, PyItem(fc, rec.end_idx).date>>

(* no subscript of build_summary raises IndexError on the branches taken *)
SummaryOk(fc, ev) ==
    LET b == RainBranch(ev)
    IN  /\ fc # <<>>
        /\ b = "storm_risk" => FirstDayOk(fc, ev.storm_risk.days)
        /\ b \in {"flood_long_rain", "long_rain"} => SpanOk(fc, ev.long_rain)
        /\ b = "heavy_rain" => FirstDayOk(fc, ev.heavy_rain.days)
        /\ ThunderBranch(ev) => FirstDayOk(fc, ev.thunderstorm.days)
        /\ WindBranch(ev) => FirstDayOk(fc, ev.strong_wind.days)

Frag(kind, dates) == [frag |-> kind, dates |-> dates]

RainFragment(fc, ev) ==
    LET b == RainBranch(ev)
    IN  CASE b = "storm_risk" ->
                <<Frag("storm_risk", <<FirstDayDate(fc, ev.storm_risk.days)>>)>>
          [] b = "flood_long_rain" ->
                <<Frag("flood_long_rain", SpanDates(fc, ev.long_rain))>>
          [] b = "flood" -> <<Frag("flood", <<>>)>>
          [] b = "long_rain" -> <<Frag("long_rain", SpanDates(fc, ev.long_rain))>>
          [] b = "heavy_rain" ->
                <<Frag("heavy_rain", <<FirstDayDate(fc, ev.heavy_rain.days)>>)>>
          [] b = "showers" -> <<Frag("showers", <<>>)>>
          [] OTHER -> <<>>

ThunderFragment(fc, ev) ==
    IF ThunderBranch(ev)
    THEN <<Frag("thunderstorm", <<FirstDayDate(fc, ev.thunderstorm.days)>>)>>
    ELSE <<>>

WindFragment(fc, ev) ==
    IF WindBranch(ev)
    THEN <<Frag("strong_wind", <<FirstDayDate(fc, ev.strong_wind.days)>>)>>
    ELSE <<>>

NothingFragment(ev) ==
    IF NothingRemarkable(ev) THEN <<Frag("nothing_remarkable", <<>>)>> ELSE <<>>

build_summary(name, ed, fc, ev) ==
    <<BaseSentence(name, ed, fc)>>
    \o <<Frag(ImpactTier(name, fc), <<>>)>>
    \o RainFragment(fc, ev)
    \o ThunderFragment(fc, ev)
    \o WindFragment(fc, ev)
    \o NothingFragment(ev)

----------------------------------------------------------------------------
(* _build_input_window *)

WINDOW == 60

(* str.lower() on the column names that occur *)
LowerName(c) ==
    CASE c = "Date" -> "date"
      [] c = "City" -> "city"
      [] c = "CITY" -> "city"
      [] c = "Hanoi" -> "hanoi"
      [] c = "HaNoi" -> "hanoi"
      [] c = "Da Nang" -> "da nang"
      [] OTHER -> c

(* _find_col: some column whose lower-cased name is the logical name *)
HasCol(columns, logical) == \E c \in columns : LowerName(c) = LowerName(logical)

(* df[(df[city_col] == city_name) & (df[date_col] <= end_dt)] *)
FilterRows(rows, name, ed) ==
    SelectSeq(rows, LAMBDA r : r.city = name /\ r.date <= ed)

(* the position of rows[i] when the rows are ordered by date *)
RankByDate(rows, i) ==
    1 + Cardinality({j \in 1..Len(rows) :
                        \/ rows[j].date < rows[i].date
                        \/ rows[j].date = rows[i].date /\ j < i})

(* sort_values(date_col): ascending by date *)
SortByDate(rows) ==
    [p \in 1..Len(rows) |-> rows[CHOOSE i \in 1..Len(rows) : RankByDate(rows, i) = p]]

(* df_city.tail(WINDOW) when there are at least WINDOW rows, else all of them *)
TailWindow(rows) ==
    IF Len(rows) >= WINDOW
    THEN SubSeq(rows, Len(rows) - WINDOW + 1, Len(rows))
    ELSE rows

(* MinMaxScaler.transform on one value of feature k, in thousandths *)
ScaleValue(scaler, k, x) ==
    ((x - scaler.lo[k]) * 1000) \div (scaler.hi[k] - scaler.lo[k])

(* window_df[feature_cols].to_numpy() followed by scaler.transform *)
ScaleRow(scaler, row) ==
    [k \in 1..Len(scaler.features) |->
        ScaleValue(scaler, k, row.vals[scaler.features[k]])]

ScaleRows(scaler, rows) == [k \in 1..Len(rows) |-> ScaleRow(scaler, rows[k])]

(* variant: the most recent row is the one repeated *)
PadBlockLastRow(X_scaled, pad_len) == [k \in 1..pad_len |-> X_scaled[Len(X_scaled)]]

(* np.repeat(X_scaled[0:1, :], pad_len, axis=0) *)
PadBlock(X_scaled, pad_len) == [k \in 1..pad_len |-> X_scaled[1]]

(* np.vstack([pad_block, X_scaled]) when fewer than WINDOW rows *)
PadWindow(X_scaled) ==
    IF Len(X_scaled) < WINDOW
    THEN PadBlock(X_scaled, WINDOW - Len(X_scaled)) \o X_scaled
    ELSE X_scaled

Raised(kind, message) == [raised |-> kind, message |-> message, value |-> <<>>]

Returned(v) == [raised |-> "none", message |-> "", value |-> v]

_build_input_window(e, name, ed) ==
    LET df_city == SortByDate(FilterRows(e.rows, name, ed))
        window_df == TailWindow(df_city)
    IN  IF ~e.file_exists THEN Raised("FileNotFoundError", "Climate data not found")
        ELSE IF ~HasCol(e.columns, "Date") \/ ~HasCol(e.columns, "City")
             THEN Raised("ValueError", "Column not found in climate data")
        ELSE IF Len(df_city) = 0 THEN Raised("ValueError", "No climate data")
        ELSE IF name \notin DOMAIN e.scalers
             THEN Raised("ValueError", "No scaler for city")
        ELSE IF \E k \in 1..Len(e.scalers[name].features) :
                    e.scalers[name].features[k] \notin e.columns
             THEN Raised("ValueError", "Missing feature columns")
        ELSE Returned(PadWindow(ScaleRows(e.scalers[name], window_df)))

----------------------------------------------------------------------------
(* Bounded inputs *)

MaxIndex == 6

MaxDay == 1

MaxRows == 62

MaxProb == 2

Levels == 0..(NUM_CLASSES - 1)

(* levels on both sides of the thunderstorm and storm thresholds *)
StormRainLevels == (LONG_RAIN_MIN_LEVEL - 1)..HEAVY_RAIN_LEVEL

StormWindLevels == (STRONG_WIND_LEVEL - 1)..STRONG_WIND_LEVEL

(* temperatures around the heatwave threshold, and a cool day *)
HeatTemps == {20, HEATWAVE_TEMP - 1, HEATWAVE_TEMP, HEATWAVE_TEMP + 1}

(* weekly temperatures that put the feel-like mean in each impact band *)
TierTemps == {20, 21, 27, 32}

TierCities == {"Hanoi", "Quang Tri"}

RECURSIVE SeqOfSet(_)
SeqOfSet(S) ==
    IF S = {} THEN <<>>
    ELSE LET m == CHOOSE x \in S : \A y \in S : x <= y
         IN  <<m>> \o SeqOfSet(S \ {m})

AscendingLists(S) == {SeqOfSet(T) : T \in SUBSET S}

Const(v) == [k \in 1..HORIZON |-> v]

NoEvents == [k \in {} |-> 0]

NoRun == <<>>

NoEnv == [k \in {} |-> 0]

NoPreds == [k \in {} |-> 0]

NoResponse == [k \in {} |-> 0]

Stages == {"meta", "window", "model", "detect", "summary"}

NoCalls == [st \in Stages |-> 0]

(* variables of the request handler, outside a request *)
NoRequest ==
    /\ city_code = ""
    /\ env = NoEnv
    /\ window = <<>>
    /\ preds = NoPreds
    /\ exc = "none"
    /\ detail = ""
    /\ response = NoResponse
    /\ calls = NoCalls

(* one more invocation of a stage *)
Called(st) == calls' = [calls EXCEPT ![st] = @ + 1]

----------------------------------------------------------------------------
(* _run_model_and_decode: one ForecastDay per horizon day *)

ForecastDay(ed, i, temp, wind, rain_class, wind_class) ==
    [date |-> ed + i + 1, heat_index |-> temp, temp_avg |-> temp,
     wind_speed |-> wind, rain_level |-> rain_class, wind_level |-> wind_class]

Decoded(ed, temp, wind, rain_class, wind_class) ==
    [k \in 1..HORIZON |->
        ForecastDay(ed, k - 1, temp[k], wind[k], rain_class[k], wind_class[k])]

(* variant: a later class with an equal value replaces the best so far *)
ArgMaxStepLastWins(dist, k, best) == IF dist[k] >= dist[best] THEN k ELSE best

(* np.argmax keeps the first occurrence of the largest value *)
ArgMaxStep(dist, k, best) == IF dist[k] > dist[best] THEN k ELSE best

RECURSIVE ArgMaxScan(_, _, _)
ArgMaxScan(dist, k, best) ==
    IF k > Len(dist) THEN best
    ELSE ArgMaxScan(dist, k + 1, ArgMaxStep(dist, k, best))

(* np.argmax(dist, axis=-1): a 0-based class index *)
ArgMax(dist) == ArgMaxScan(dist, 2, 1) - 1

_run_model_and_decode(p, ed) ==
    Decoded(ed, p.temp, p.wind,
            [k \in 1..HORIZON |-> ArgMax(p.rain_lvl[k])],
            [k \in 1..HORIZON |-> ArgMax(p.wind_lvl[k])])

----------------------------------------------------------------------------
(* run_prediction: decode, detect, compose *)

Init ==
    /\ pc = "window"
    /\ city_name = "Hanoi"
    /\ end_date = 0
    /\ forecast = <<>>
    /\ events = NoEvents
    /\ text = <<>>
    /\ indices = <<>>
    /\ run = NoRun
    /\ NoRequest

DecodeFrom(TempSeries, RainSeries, WindSeries) ==
    /\ pc = "window"
    /\ \E temp \in TempSeries, rain_class \in RainSeries, wind_class \in WindSeries :
          forecast' = Decoded(end_date, temp, Const(5), rain_class, wind_class)
    /\ pc' = "decoded"
    /\ Called("model")
    /\ UNCHANGED <<city_name, end_date, events, text, indices, run, reqVars, exc>>

(* joint rain and wind classes *)
Decode ==
    DecodeFrom({Const(30)}, [1..HORIZON -> StormRainLevels],
               [1..HORIZON -> StormWindLevels])

(* every rain class on every day, calm wind *)
DecodeRain == DecodeFrom({Const(30)}, [1..HORIZON -> Levels], {Const(0)})

(* temperatures on every day, dry and calm *)
DecodeHeat == DecodeFrom([1..HORIZON -> HeatTemps], {Const(0)}, {Const(0)})

Detect ==
    /\ pc = "decoded"
    /\ events' = detect_events(forecast)
    /\ pc' = "detected"
    /\ Called("detect")
    /\ UNCHANGED <<city_name, end_date, forecast, text, indices, run, reqVars, exc>>

Summarize ==
    /\ pc = "detected"
    /\ IF SummaryOk(forecast, events)
       THEN /\ text' = build_summary(city_name, end_date, forecast, events)
            /\ pc' = "done"
            /\ exc' = exc
       ELSE /\ text' = <<>>
            /\ pc' = "failed"
            /\ exc' = "IndexError"
    /\ Called("summary")
    /\ UNCHANGED <<city_name, end_date, forecast, events, indices, run, reqVars>>

Next == Decode \/ Detect \/ Summarize

Spec == Init /\ [][Next]_vars

NextRain == DecodeRain \/ Detect \/ Summarize

SpecRain == Init /\ [][NextRain]_vars

NextHeat == DecodeHeat \/ Detect \/ Summarize

SpecHeat == Init /\ [][NextHeat]_vars

----------------------------------------------------------------------------
(* _run_model_and_decode applied to class distributions of the model *)

(* unnormalised class weights of one day *)
Distributions == [1..NUM_CLASSES -> 0..MaxProb]

Rotate(dist, s) == [k \in 1..NUM_CLASSES |-> dist[((k - 1 + s) % NUM_CLASSES) + 1]]

(* MODEL.predict: the four heads; the days' distributions are rotations of r *)
ModelOutput(r, s) ==
    [temp |-> Const(30),
     wind |-> Const(5),
     rain_lvl |-> [k \in 1..HORIZON |-> Rotate(r, k - 1)],
     wind_lvl |-> [k \in 1..HORIZON |-> Rotate(r, s + 2 * (k - 1))]]

ModelOutputs == {ModelOutput(r, s) : r \in Distributions, s \in 0..(NUM_CLASSES - 1)}

(* an exception MODEL.predict raises in this environment, or "none" *)
ModelFault == IF "model_fault" \in DOMAIN env THEN env.model_fault ELSE "none"

DecodeModelFrom(Outputs) ==
    /\ pc = "window"
    /\ IF ModelFault = "none"
       THEN /\ \E p \in Outputs :
                  /\ preds' = p
                  /\ forecast' = _run_model_and_decode(p, end_date)
            /\ pc' = "decoded"
            /\ UNCHANGED <<exc, detail>>
       ELSE /\ pc' = "failed"
            /\ exc' = ModelFault
            /\ detail' = "MODEL.predict failed"
            /\ UNCHANGED <<preds, forecast>>
    /\ Called("model")
    /\ UNCHANGED <<city_name, end_date, events, text, indices, run,
                   city_code, env, window, response>>

DecodeModel == DecodeModelFrom(ModelOutputs)

NextDecode == DecodeModel \/ Detect \/ Summarize

SpecDecode == Init /\ [][NextDecode]_vars

----------------------------------------------------------------------------
(* _build_input_window applied to histories of MaxRows days *)

HistoryRow(city, d) ==
    [city |-> city, date |-> d, vals |-> [temp |-> 100 + 7 * d, humid |-> 50 + d]]

Orders == {"ascending", "descending", "odd_first"}

(* the date of the k-th stored row of the city *)
StoredDate(order, k) ==
    CASE order = "ascending" -> k
      [] order = "descending" -> MaxRows + 1 - k
      [] OTHER -> IF 2 * k - 1 <= MaxRows
                  THEN 2 * k - 1
                  ELSE 2 * (k - ((MaxRows + 1) \div 2))

(* the sheet: the city's rows in stored order, between rows of another city *)
History(order) ==
    <<HistoryRow("Da Nang", 1)>>
    \o [k \in 1..MaxRows |-> HistoryRow("Hanoi", StoredDate(order, k))]
    \o <<HistoryRow("Da Nang", 2)>>

FittedScaler == [features |-> <<"temp", "humid">>, lo |-> <<100, 0>>, hi |-> <<800, 200>>]

GoodEnv(order) ==
    [meta |-> [c \in {"Hanoi", "Da Nang"} |-> IF c = "Hanoi" THEN "North" ELSE "Central"],
     file_exists |-> TRUE,
     columns |-> {"Date", "City", "temp", "humid"},
     rows |-> History(order),
     scalers |-> [c \in {"Hanoi"} |-> FittedScaler],
     model_fault |-> "none"]

InitWindow ==
    /\ pc = "meta"
    /\ city_code = "hanoi"
    /\ city_name = "Hanoi"
    /\ end_date \in 0..(MaxRows + 1)
    /\ env \in {GoodEnv(order) : order \in Orders}
    /\ forecast = <<>>
    /\ events = NoEvents
    /\ text = <<>>
    /\ indices = <<>>
    /\ run = NoRun
    /\ window = <<>>
    /\ preds = NoPreds
    /\ exc = "none"
    /\ detail = ""
    /\ response = NoResponse
    /\ calls = [NoCalls EXCEPT !["meta"] = 1]

BuildWindow ==
    /\ pc = "meta"
    /\ LET r == _build_input_window(env, city_name, end_date)
       IN  IF r.raised = "none"
           THEN /\ window' = r.value
                /\ pc' = "window"
                /\ UNCHANGED <<exc, detail>>
           ELSE /\ window' = window
                /\ pc' = "failed"
                /\ exc' = r.raised
                /\ detail' = r.message
    /\ Called("window")
    /\ UNCHANGED <<city_name, end_date, forecast, events, text, indices, run,
                   city_code, env, preds, response>>

NextWindow == BuildWindow

SpecWindow == InitWindow /\ [][NextWindow]_vars

----------------------------------------------------------------------------
(* predict of src/app.py around run_prediction: one request, start to reply *)

(* some of the codes of CITY_CODE_TO_NAME *)
CITY_CODE_TO_NAME ==
    [code \in {"hanoi", "danang", "hue"} |->
        CASE code = "hanoi" -> "Hanoi"
          [] code = "danang" -> "Da Nang"
          [] OTHER -> "Hue (Thua Thien Hue)"]

(* CITY_CODE_TO_NAME.get(city_code.lower(), city_code) *)
CityNameOf(code) ==
    IF LowerName(code) \in DOMAIN CITY_CODE_TO_NAME
    THEN CITY_CODE_TO_NAME[LowerName(code)]
    ELSE code

_get_city_meta(e, code) ==
    LET name == CityNameOf(code)
    IN  IF name \notin DOMAIN e.meta
        THEN Raised("ValueError", "City not found in meta_info.csv")
        ELSE Returned([city_name |-> name, region |-> e.meta[name]])

(* an end date pd.to_datetime cannot parse *)
InvalidDate == -1

(* variant: a missing file is reported as a client error too *)
StatusOfMissingFileAsClient(e) ==
    IF e \in {"ValueError", "FileNotFoundError"} THEN 400 ELSE 500

(* except ValueError -> 400; except Exception -> 500 *)
StatusOf(e) == IF e = "ValueError" THEN 400 ELSE 500

(* variant: the error reply carries the forecast computed so far *)
HTTPExceptionWithForecast(status_code, message) ==
    [status |-> status_code, detail |-> message, forecast |-> forecast]

HTTPException(status_code, message) == [status |-> status_code, detail |-> message]

(* the dict run_prediction returns *)
OutputRecord ==
    [city |-> city_name,
     region |-> env.meta[city_name],
     selected_date |-> end_date,
     horizon_days |-> HORIZON,
     forecast |-> forecast,
     summary |-> text,
     events |-> events]

RequestCodes == {"hanoi", "HaNoi", "Hanoi", "Da Nang", "danang", "hue", "atlantis"}

RequestDates == {InvalidDate, 0, 10, MaxRows}

RequestEnvs ==
    LET good == GoodEnv("odd_first")
    IN  {good,
         [good EXCEPT !.columns = {"date", "CITY", "temp", "humid"}],
         [good EXCEPT !.file_exists = FALSE],
         [good EXCEPT !.columns = {"City", "temp", "humid"}],
         [good EXCEPT !.columns = {"Date", "City", "temp"}],
         [good EXCEPT !.model_fault = "RuntimeError"]}

(* class distributions with weights 0 and 1 *)
FewOutputs == {ModelOutput(r, 0) : r \in [1..NUM_CLASSES -> 0..1]}

InitRequest ==
    /\ pc = "start"
    /\ city_code \in RequestCodes
    /\ end_date \in RequestDates
    /\ env \in RequestEnvs
    /\ city_name = ""
    /\ forecast = <<>>
    /\ events = NoEvents
    /\ text = <<>>
    /\ indices = <<>>
    /\ run = NoRun
    /\ window = <<>>
    /\ preds = NoPreds
    /\ exc = "none"
    /\ detail = ""
    /\ response = NoResponse
    /\ calls = NoCalls

GetCityMeta ==
    /\ pc = "start"
    /\ LET info == _get_city_meta(env, city_code)
       IN  IF info.raised = "none"
           THEN /\ city_name' = info.value.city_name
                /\ pc' = "named"
                /\ UNCHANGED <<exc, detail>>
           ELSE /\ city_name' = city_name
                /\ pc' = "failed"
                /\ exc' = info.raised
                /\ detail' = info.message
    /\ Called("meta")
    /\ UNCHANGED <<end_date, forecast, events, text, indices, run,
                   city_code, env, window, preds, response>>

(* _build_future_dates_from_end: pd.to_datetime(end_date) *)
BuildFutureDates ==
    /\ pc = "named"
    /\ IF end_date = InvalidDate
       THEN /\ pc' = "failed"
            /\ exc' = "ValueError"
            /\ detail' = "Unknown datetime string format"
       ELSE /\ pc' = "meta"
            /\ UNCHANGED <<exc, detail>>
    /\ UNCHANGED <<city_name, end_date, forecast, events, text, indices, run,
                   city_code, env, window, preds, response, calls>>

DecodeModelFew == DecodeModelFrom(FewOutputs)

(* run_prediction returns and predict passes the dict on *)
Return ==
    /\ pc = "done"
    /\ response' = [status |-> 200, body |-> OutputRecord]
    /\ pc' = "returned"
    /\ UNCHANGED <<city_name, end_date, forecast, events, text, indices, run,
                   city_code, env, window, preds, exc, detail, calls>>

(* the except clauses of predict *)
HandleError ==
    /\ pc = "failed"
    /\ response' = HTTPException(StatusOf(exc), detail)
    /\ pc' = "rejected"
    /\ UNCHANGED <<city_name, end_date, forecast, events, text, indices, run,
                   city_code, env, window, preds, exc, detail, calls>>

NextRequest ==
    \/ GetCityMeta
    \/ BuildFutureDates
    \/ BuildWindow
    \/ DecodeModelFew
    \/ Detect
    \/ Summarize
    \/ Return
    \/ HandleError

SpecRequest == InitRequest /\ [][NextRequest]_vars

----------------------------------------------------------------------------
(* _longest_run applied to every ascending list of day indices *)

InitRun ==
    /\ pc = "indices"
    /\ city_name = "Hanoi"
    /\ end_date = 0
    /\ forecast = <<>>
    /\ events = NoEvents
    /\ text = <<>>
    /\ indices \in AscendingLists(0..MaxIndex)
    /\ run = NoRun
    /\ NoRequest

LongestRun ==
    /\ pc = "indices"
    /\ run' = _longest_run(indices)
    /\ pc' = "run_done"
    /\ UNCHANGED <<city_name, end_date, forecast, events, text, indices, reqVars, exc, calls>>

NextRun == LongestRun

SpecRun == InitRun /\ [][NextRun]_vars

----------------------------------------------------------------------------
(* build_summary applied to event reports that detect_events need not have *)
(* produced: any combination of the flags, with the fields the flags guard *)

DayLists == UNION {{<<d>>, <<d, d + 1>>} : d \in 0..MaxDay}

PointRecords ==
    {[has_event |-> FALSE, days |-> <<>>]}
    \cup {[has_event |-> TRUE, days |-> ds] : ds \in DayLists}

LongRainRecords ==
    {RunRecord(FALSE, -1, -1)}
    \cup {RunRecord(FALSE, s, s) : s \in 0..MaxDay}
    \cup {RunRecord(TRUE, s, s + LONG_RAIN_MIN_LEN - 1) : s \in 0..MaxDay}

Reports ==
    {EventReport(RunRecord(FALSE, -1, -1), FlagRecord(FALSE), FlagRecord(FALSE),
                 lr, hr, FlagRecord(sh), FlagRecord(fl), sw, th, st) :
        lr \in LongRainRecords, hr \in PointRecords, sh \in BOOLEAN,
        fl \in BOOLEAN, sw \in PointRecords, th \in PointRecords,
        st \in PointRecords}

InitSummary ==
    /\ pc = "detected"
    /\ city_name \in TierCities
    /\ end_date = 0
    /\ \E t \in TierTemps :
          forecast = Decoded(end_date, Const(t), Const(5), Const(0), Const(0))
    /\ events \in Reports
    /\ text = <<>>
    /\ indices = <<>>
    /\ run = NoRun
    /\ NoRequest

NextSummary == Summarize

SpecSummary == InitSummary /\ [][NextSummary]_vars

(* the same reports, for one city and a cool and a hot week *)
InitIndep ==
    /\ pc = "detected"
    /\ city_name = "Quang Tri"
    /\ end_date = 0
    /\ \E t \in {20, 32} :
          forecast = Decoded(end_date, Const(t), Const(5), Const(0), Const(0))
    /\ events \in Reports
    /\ text = <<>>
    /\ indices = <<>>
    /\ run = NoRun
    /\ NoRequest

SpecIndep == InitIndep /\ [][NextSummary]_vars

----------------------------------------------------------------------------
(* Properties *)

ElemSet(xs) == {xs[k] : k \in 1..Len(xs)}

StrictlyAscending(xs) == \A k \in 1..Len(xs), l \in 1..Len(xs) : k < l => xs[k] < xs[l]

(* a..b is a block of consecutive members of S *)
IsBlock(S, a, b) == a <= b /\ \A i \in a..b : i \in S

(* s..e is a block of S, no block of S is longer, and none as long starts earlier *)
LeftmostLongest(S, s, e) ==
    /\ IsBlock(S, s, e)
    /\ \A a \in S, b \in S :
          IsBlock(S, a, b) => (b - a < e - s) \/ (b - a = e - s /\ a >= s)

Detected == pc \in {"detected", "done", "failed"}

DayIdx == 0..(Len(forecast) - 1)

Temp(i) == forecast[i + 1].temp_avg

Rain(i) == forecast[i + 1].rain_level

Wind(i) == forecast[i + 1].wind_level

Temps == [k \in 1..Len(forecast) |-> forecast[k].temp_avg]

Rains == [k \in 1..Len(forecast) |-> forecast[k].rain_level]

Winds == [k \in 1..Len(forecast) |-> forecast[k].wind_level]

(* C1: _longest_run returns (0, -1, -1) for the empty list, and otherwise    *)
(* (length, start_idx, end_idx) of the leftmost run of consecutive indices   *)
(* of maximum length: start_idx..end_idx are all in the list, its length is  *)
(* end_idx - start_idx + 1, no run is longer and no earlier run is as long.  *)
C1_LongestRunLeftmost ==
    pc = "run_done" =>
        IF indices = <<>>
        THEN run = <<0, -1, -1>>
        ELSE /\ run[1] = run[3] - run[2] + 1
             /\ LeftmostLongest(ElemSet(indices), run[2], run[3])

C1_Witness ==
    pc = "run_done" /\ indices = <<0, 1, 2, 4, 5, 6>> /\ run = <<3, 0, 2>>

(* C2: the report of detect_events has exactly the ten keys heatwave,        *)
(* hot_dry, comfortable, long_rain, heavy_rain, showers, urban_flood_risk,   *)
(* strong_wind, thunderstorm and storm_risk, whatever the series is.         *)
C2_TenKeys ==
    Detected =>
        /\ DOMAIN events =
              {"heatwave", "hot_dry", "comfortable", "long_rain", "heavy_rain",
               "showers", "urban_flood_risk", "strong_wind", "thunderstorm",
               "storm_risk"}
        /\ Cardinality(DOMAIN events) = 10

C2_Witness ==
    /\ pc = "detected"
    /\ Rains = <<1, 3, 1, 2, 2, 2, 1>>
    /\ Winds = <<1, 2, 1, 1, 1, 1, 2>>
    /\ events.storm_risk.has_event
    /\ ~events.showers.has_event

(* C3: heatwave.has_event is true exactly when at least 3 consecutive days   *)
(* have temp_avg >= 35, and then start_idx..end_idx is the leftmost longest  *)
(* block of such days.                                                       *)
C3_Heatwave ==
    Detected =>
        LET Hot == {i \in DayIdx : Temp(i) >= 35}
            hw == events.heatwave
        IN  /\ hw.has_event <=> \E s \in DayIdx : IsBlock(Hot, s, s + 2)
            /\ hw.has_event => LeftmostLongest(Hot, hw.start_idx, hw.end_idx)

C3_Witness ==
    /\ pc = "detected"
    /\ Temps = <<36, 36, 35, 20, 20, 20, 20>>
    /\ events.heatwave = [has_event |-> TRUE, start_idx |-> 0, end_idx |-> 2]

(* C4: long_rain.has_event is true exactly when at least 3 consecutive days  *)
(* have rain_level >= 2, and then start_idx..end_idx spans the whole         *)
(* leftmost longest block of such days, days of level 3 or 4 included.       *)
C4_LongRain ==
    Detected =>
        LET Wet == {i \in DayIdx : Rain(i) >= 2}
            lr == events.long_rain
        IN  /\ lr.has_event <=> \E s \in DayIdx : IsBlock(Wet, s, s + 2)
            /\ lr.has_event => LeftmostLongest(Wet, lr.start_idx, lr.end_idx)

C4_Witness ==
    /\ pc = "detected"
    /\ Rains = <<0, 2, 2, 2, 3, 3, 0>>
    /\ events.long_rain = [has_event |-> TRUE, start_idx |-> 1, end_idx |-> 5]
    /\ events.heavy_rain = [has_event |-> TRUE, days |-> <<4, 5>>]
    /\ events.urban_flood_risk.has_event

(* C5: urban_flood_risk.has_event is true exactly when long_rain.has_event   *)
(* is true or at least two days, consecutive or not, have rain_level >= 3.   *)
C5_UrbanFlood ==
    Detected =>
        (events.urban_flood_risk.has_event <=>
            \/ events.long_rain.has_event
            \/ Cardinality({i \in DayIdx : Rain(i) >= 3}) >= 2)

C5_Witness ==
    /\ pc = "detected"
    /\ Rains = <<3, 0, 0, 1, 0, 0, 4>>
    /\ events.urban_flood_risk.has_event
    /\ ~events.long_rain.has_event

(* C6: showers.has_event is true exactly when the largest rain_level of the  *)
(* week is 1 and neither heavy_rain nor long_rain holds; whenever showers    *)
(* holds, heavy_rain.has_event and long_rain.has_event are both false.       *)
C6_Showers ==
    Detected =>
        LET max_is_1 ==
                (\E i \in DayIdx : Rain(i) = 1) /\ (\A i \in DayIdx : Rain(i) <= 1)
        IN  /\ events.showers.has_event <=>
                  /\ max_is_1
                  /\ ~events.heavy_rain.has_event
                  /\ ~events.long_rain.has_event
            /\ events.showers.has_event =>
                  ~events.heavy_rain.has_event /\ ~events.long_rain.has_event

C6_Witness ==
    /\ pc = "detected"
    /\ Rains = <<0, 1, 0, 0, 1, 0, 0>>
    /\ \A i \in DayIdx : Wind(i) < 2
    /\ events.showers.has_event
    /\ ~events.heavy_rain.has_event
    /\ ~events.long_rain.has_event

(* C7: storm_risk.days lists in ascending order exactly the days with        *)
(* rain_level >= 3 and wind_level >= 2, thunderstorm.days exactly the days   *)
(* with rain_level >= 2 and wind_level >= 2, every storm day is a thunder    *)
(* day, each has_event flag is true exactly when its list is non-empty, and  *)
(* so storm_risk implies thunderstorm.                                       *)
C7_StormImpliesThunder ==
    Detected =>
        LET st == events.storm_risk
            th == events.thunderstorm
        IN  /\ ElemSet(st.days) = {i \in DayIdx : Rain(i) >= 3 /\ Wind(i) >= 2}
            /\ ElemSet(th.days) = {i \in DayIdx : Rain(i) >= 2 /\ Wind(i) >= 2}
            /\ StrictlyAscending(st.days)
            /\ StrictlyAscending(th.days)
            /\ ElemSet(st.days) \subseteq ElemSet(th.days)
            /\ st.has_event <=> st.days # <<>>
            /\ th.has_event <=> th.days # <<>>
            /\ st.has_event => th.has_event

C7_Witness ==
    /\ pc = "detected"
    /\ events.storm_risk = [has_event |-> TRUE, days |-> <<2>>]
    /\ events.thunderstorm = [has_event |-> TRUE, days |-> <<2, 5>>]

----------------------------------------------------------------------------
(* Properties of the composed summary *)

Kinds == [k \in 1..Len(text) |-> text[k].frag]

Emitted(kind) == \E k \in 1..Len(text) : text[k].frag = kind

Position(kind) == CHOOSE k \in 1..Len(text) : text[k].frag = kind

RainKinds ==
    {"storm_risk", "flood_long_rain", "flood", "long_rain", "heavy_rain", "showers"}

TierKinds == {"feel_very_hot", "feel_hot", "feel_pleasant", "feel_cool"}

Count(S) == Cardinality({k \in 1..Len(text) : text[k].frag \in S})

Holds(kind) == events[kind].has_event

(* C8: at most one rain-related fragment is appended, chosen by the strict   *)
(* precedence storm_risk > urban_flood_risk > long_rain > heavy_rain >       *)
(* showers: a kind's fragment is emitted only if it holds and no higher kind *)
(* holds; urban_flood_risk uses the long-rain-span variant when long_rain    *)
(* also holds and the generic one otherwise; none is appended when none of   *)
(* the five holds.                                                           *)
C8_RainPrecedence ==
    pc = "done" =>
        /\ Count(RainKinds) <= 1
        /\ Emitted("storm_risk") <=> Holds("storm_risk")
        /\ Emitted("flood_long_rain") <=>
              ~Holds("storm_risk") /\ Holds("urban_flood_risk") /\ Holds("long_rain")
        /\ Emitted("flood") <=>
              ~Holds("storm_risk") /\ Holds("urban_flood_risk") /\ ~Holds("long_rain")
        /\ Emitted("long_rain") <=>
              /\ ~Holds("storm_risk") /\ ~Holds("urban_flood_risk")
              /\ Holds("long_rain")
        /\ Emitted("heavy_rain") <=>
              /\ ~Holds("storm_risk") /\ ~Holds("urban_flood_risk")
              /\ ~Holds("long_rain") /\ Holds("heavy_rain")
        /\ Emitted("showers") <=>
              /\ ~Holds("storm_risk") /\ ~Holds("urban_flood_risk")
              /\ ~Holds("long_rain") /\ ~Holds("heavy_rain") /\ Holds("showers")

C8_Witness ==
    /\ pc = "done"
    /\ Emitted("long_rain")
    /\ Holds("heavy_rain")
    /\ Holds("showers")
    /\ Count(RainKinds) = 1

(* C9: the thunderstorm fragment is appended exactly when thunderstorm holds *)
(* and storm_risk does not, the strong-wind fragment exactly when            *)
(* strong_wind holds and storm_risk does not, whatever the other one and the *)
(* rain fragment are; the thunderstorm fragment precedes the strong-wind     *)
(* fragment and both follow the rain fragment.                               *)
C9_ThunderAndWind ==
    pc = "done" =>
        /\ Emitted("thunderstorm") <=> Holds("thunderstorm") /\ ~Holds("storm_risk")
        /\ Emitted("strong_wind") <=> Holds("strong_wind") /\ ~Holds("storm_risk")
        /\ Count({"thunderstorm"}) <= 1
        /\ Count({"strong_wind"}) <= 1
        /\ Emitted("thunderstorm") /\ Emitted("strong_wind") =>
              Position("thunderstorm") < Position("strong_wind")
        /\ \A k \in 1..Len(text), l \in 1..Len(text) :
              /\ text[k].frag \in RainKinds
              /\ text[l].frag \in {"thunderstorm", "strong_wind"}
              => k < l

C9_Witness ==
    /\ pc = "done"
    /\ Len(text) = 5
    /\ Kinds[3] = "showers"
    /\ Kinds[4] = "thunderstorm"
    /\ Kinds[5] = "strong_wind"

(* C10: the 'no notable event' fragment is appended exactly when neither the *)
(* rain step nor the thunderstorm / strong-wind step appended anything, so a *)
(* summary is the base sentence, exactly one impact-tier fragment, and then  *)
(* either at least one event fragment or the 'no notable event' fragment,    *)
(* never both and never neither.                                             *)
C10_NothingRemarkable ==
    pc = "done" =>
        LET EventKinds == RainKinds \cup {"thunderstorm", "strong_wind"}
        IN  /\ Emitted("nothing_remarkable") <=> Count(EventKinds) = 0
            /\ Len(text) >= 3
            /\ Kinds[1] = "base"
            /\ Count({"base"}) = 1
            /\ Kinds[2] \in TierKinds
            /\ Count(TierKinds) = 1
            /\ \A k \in 3..Len(text) :
                  Kinds[k] \in EventKinds \cup {"nothing_remarkable"}
            /\ Count({"nothing_remarkable"}) <= 1
            /\ Emitted("nothing_remarkable") => Len(text) = 3

C10_Witness ==
    /\ pc = "done"
    /\ Kinds = <<"base", "feel_hot", "nothing_remarkable">>
    /\ \A kind \in DOMAIN events : ~Holds(kind)

----------------------------------------------------------------------------
(* Properties of detect_events followed by build_summary *)

EventFragKinds == RainKinds \cup {"thunderstorm", "strong_wind"}

ValidDay(i) == i \in 0..(HORIZON - 1)

FirstDayValid(rec) == rec.days # <<>> /\ ValidDay(rec.days[1])

(* C11: for a well-formed series detect_events followed by build_summary     *)
(* never raises: every index build_summary reads on a branch it takes        *)
(* (storm_risk.days[0], heavy_rain.days[0], thunderstorm.days[0],            *)
(* strong_wind.days[0], long_rain.start_idx and end_idx) exists and lies in  *)
(* 0..6; start_idx and end_idx are never the -1 sentinel where they are used. *)
C11_NeverRaises ==
    /\ pc # "failed"
    /\ pc \in {"detected", "done"} =>
          LET storm == Holds("storm_risk")
              flood == Holds("urban_flood_risk")
              long == Holds("long_rain")
          IN  /\ Len(forecast) = HORIZON
              /\ storm => FirstDayValid(events.storm_risk)
              /\ ~storm /\ long =>
                    /\ ValidDay(events.long_rain.start_idx)
                    /\ ValidDay(events.long_rain.end_idx)
              /\ ~storm /\ ~flood /\ ~long /\ Holds("heavy_rain") =>
                    FirstDayValid(events.heavy_rain)
              /\ ~storm /\ Holds("thunderstorm") =>
                    FirstDayValid(events.thunderstorm)
              /\ ~storm /\ Holds("strong_wind") =>
                    FirstDayValid(events.strong_wind)

C11_Witness ==
    /\ pc = "done"
    /\ Emitted("flood_long_rain")
    /\ Emitted("thunderstorm")
    /\ Emitted("strong_wind")
    /\ events.long_rain.start_idx = 2
    /\ events.long_rain.end_idx = 6

(* C16: on the report detect_events produced for the same series the         *)
(* standalone long_rain fragment is never emitted: long_rain implies         *)
(* urban_flood_risk, so a long rainy spell is reported through the           *)
(* storm_risk fragment or the long-rain-span variant of urban_flood_risk.    *)
C16_NoStandaloneLongRain ==
    /\ Detected => (Holds("long_rain") => Holds("urban_flood_risk"))
    /\ pc = "done" =>
          /\ ~Emitted("long_rain")
          /\ Holds("long_rain") =>
                Emitted("storm_risk") \/ Emitted("flood_long_rain")

C16_Witness ==
    /\ pc = "done"
    /\ Holds("long_rain")
    /\ ~Holds("heavy_rain")
    /\ Emitted("flood_long_rain")

C18_ThunderWithWind ==
    /\ Detected => (Holds("thunderstorm") => Holds("strong_wind"))
    /\ pc = "done" =>
          /\ Emitted("thunderstorm") => Emitted("strong_wind")
          /\ Holds("storm_risk") =>
                /\ Len(text) = 3
                /\ Kinds[1] = "base"
                /\ Kinds[2] \in TierKinds
                /\ Kinds[3] = "storm_risk"

C18_Witness ==
    /\ pc = "done"
    /\ Holds("storm_risk")
    /\ Len(events.thunderstorm.days) > Len(events.storm_risk.days)
    /\ Len(events.strong_wind.days) > Len(events.thunderstorm.days)
    /\ Len(text) = 3

(* reports that agree with ev on the seven kinds build_summary is about *)
HeatVariants(ev) ==
    {[ev EXCEPT !.heatwave = hw, !.hot_dry = FlagRecord(hd), !.comfortable = FlagRecord(cf)] :
        hw \in {RunRecord(FALSE, -1, -1), RunRecord(TRUE, 0, 2)},
        hd \in BOOLEAN, cf \in BOOLEAN}

(* C19: the summary does not depend on the heatwave, hot_dry or comfortable  *)
(* records: for the same city name, end date and series, event reports that  *)
(* agree on storm_risk, urban_flood_risk, long_rain, heavy_rain, showers,    *)
(* thunderstorm and strong_wind give the identical summary.                  *)
C19_HeatRecordsIgnored ==
    pc = "done" =>
        \A ev2 \in HeatVariants(events) :
            /\ SummaryOk(forecast, ev2)
            /\ build_summary(city_name, end_date, forecast, ev2) = text

C19_Witness ==
    /\ pc = "done"
    /\ Emitted("nothing_remarkable")
    /\ \E ev2 \in HeatVariants(events) :
          /\ ev2.heatwave.has_event /\ ev2.hot_dry.has_event
          /\ ~events.heatwave.has_event
          /\ build_summary(city_name, end_date, forecast, ev2) = text

----------------------------------------------------------------------------
(* Properties of the input window *)

(* the city's rows at or before the end date *)
Available == {r \in ElemSet(env.rows) : r.city = city_name /\ r.date <= end_date}

AvailableDates ==
    LET D == {r.date : r \in Available}
    IN  [p \in 1..Cardinality(D) |->
            CHOOSE d \in D : Cardinality({e \in D : e < d}) = p - 1]

RowOfDate(d) == CHOOSE r \in Available : r.date = d

(* a row's feature values, in the scaler's feature order, before scaling *)
RawRow(d) ==
    LET fs == env.scalers[city_name].features
    IN  [k \in 1..Len(fs) |-> RowOfDate(d).vals[fs[k]]]

ScaledRow(d) == ScaleRow(env.scalers[city_name], RowOfDate(d))

(* rows WINDOW - n .. WINDOW - 1 are the n real rows, or the window is the   *)
(* WINDOW most recent rows, in ascending date order                          *)
RealRowsAtTail ==
    LET n == Cardinality(Available)
    IN  /\ Len(window) = WINDOW
        /\ n < WINDOW =>
              \A j \in 1..n : window[WINDOW - n + j] = ScaledRow(AvailableDates[j])
        /\ n >= WINDOW =>
              \A j \in 1..WINDOW : window[j] = ScaledRow(AvailableDates[n - WINDOW + j])

(* C12 as stated: with 1 <= n < WINDOW rows the output has WINDOW rows, rows *)
(* 0..WINDOW-n-1 each equal the earliest available row as it is before       *)
(* scaling, and the real rows follow in ascending date order; with           *)
(* n >= WINDOW the output is the WINDOW most recent rows.                    *)
C12_PadsUnscaledRow ==
    pc = "window" =>
        LET n == Cardinality(Available)
        IN  /\ RealRowsAtTail
            /\ n < WINDOW =>
                  \A k \in 1..(WINDOW - n) : window[k] = RawRow(AvailableDates[1])

(* C12 amended: the row repeated in rows 0..WINDOW-n-1 is the earliest       *)
(* available row after scaling (the whole output is scaled, the padding      *)
(* included); the rest of the claim stands.                                  *)
C12_PadsScaledRow ==
    /\ pc = "window" =>
          LET n == Cardinality(Available)
          IN  /\ n >= 1
              /\ RealRowsAtTail
              /\ n < WINDOW =>
                    \A k \in 1..(WINDOW - n) : window[k] = ScaledRow(AvailableDates[1])
    /\ pc = "failed" => Cardinality(Available) = 0 /\ exc = "ValueError"

C12_Witness ==
    /\ pc = "window"
    /\ Cardinality(Available) = 10
    /\ env.rows[2].date = MaxRows
    /\ Len(window) = WINDOW
    /\ window[1] = ScaledRow(1)
    /\ window[WINDOW - 10] = ScaledRow(1)
    /\ window[WINDOW - 9] = ScaledRow(1)
    /\ window[WINDOW] = ScaledRow(10)
    /\ ScaledRow(1) # RawRow(1)

----------------------------------------------------------------------------
(* Properties of the decoder *)

(* c is the lowest 0-based index of a largest entry of dist *)
LowestLargest(dist, c) ==
    /\ c \in 0..(NUM_CLASSES - 1)
    /\ \A j \in 1..NUM_CLASSES : dist[j] <= dist[c + 1]
    /\ \A j \in 1..c : dist[j] < dist[c + 1]

(* C13: on each of the 7 days rain_level and wind_level are the index of the *)
(* largest entry of that day's 5-class distribution, the lowest such index   *)
(* when several classes share the largest value, and lie in 0..4.            *)
C13_ArgmaxLowestIndex ==
    (preds # NoPreds /\ forecast # <<>>) =>
        /\ Len(forecast) = HORIZON
        /\ \A i \in 1..HORIZON :
              /\ LowestLargest(preds.rain_lvl[i], forecast[i].rain_level)
              /\ LowestLargest(preds.wind_lvl[i], forecast[i].wind_level)

C13_Witness ==
    /\ pc = "decoded"
    /\ preds # NoPreds
    /\ preds.rain_lvl[1] = <<1, 2, 0, 2, 2>>
    /\ forecast[1].rain_level = 1
    /\ preds.wind_lvl[1] = <<2, 2, 1, 2, 0>>
    /\ forecast[1].wind_level = 0
    /\ forecast[2].rain_level = 0

----------------------------------------------------------------------------
(* Properties of a request *)

Replied == response # NoResponse

OutputKeys ==
    {"city", "region", "selected_date", "horizon_days", "forecast", "summary", "events"}

(* every stage has run once and the record holds what the stages produced *)
FullRecord ==
    /\ DOMAIN response = {"status", "body"}
    /\ DOMAIN response.body = OutputKeys
    /\ \A st \in Stages : calls[st] = 1
    /\ exc = "none"
    /\ response.body.city = CityNameOf(city_code)
    /\ response.body.region = env.meta[CityNameOf(city_code)]
    /\ response.body.selected_date = end_date
    /\ response.body.horizon_days = HORIZON
    /\ Len(window) = WINDOW
    /\ preds # NoPreds
    /\ response.body.forecast = _run_model_and_decode(preds, end_date)
    /\ response.body.events = detect_events(response.body.forecast)
    /\ response.body.summary # <<>>
    /\ response.body.summary = text

(* the stages run in order, each at most once *)
StagesInOrder ==
    /\ \A st \in Stages : calls[st] <= 1
    /\ calls["window"] <= calls["meta"]
    /\ calls["model"] <= calls["window"]
    /\ calls["detect"] <= calls["model"]
    /\ calls["summary"] <= calls["detect"]

(* C14: the output record is returned only after entity lookup, window      *)
(* building, model decoding, event detection and summary composition have   *)
(* all completed; a failure at any stage yields only an error response,     *)
(* with no part of the record, and no stage is retried.                     *)
C14_AllOrNothing ==
    /\ StagesInOrder
    /\ Replied <=> pc \in {"returned", "rejected"}
    /\ Replied =>
          IF response.status = 200
          THEN FullRecord
          ELSE /\ DOMAIN response = {"status", "detail"}
               /\ response.status \in {400, 500}
               /\ exc # "none"
               /\ \E st \in Stages : calls[st] = 0

(* a failure of the model, after the window was built *)
C14_Witness ==
    /\ pc = "rejected"
    /\ Replied
    /\ response.status = 500
    /\ calls["window"] = 1
    /\ calls["model"] = 1
    /\ calls["detect"] = 0
    /\ Len(window) = WINDOW
    /\ DOMAIN response = {"status", "detail"}

(* the three named conditions; an entity without a scaler counts as an      *)
(* unresolvable entity                                                      *)
NamedFailures ==
    {"City not found in meta_info.csv", "No climate data", "No scaler for city",
     "Missing feature columns"}

(* the other failures raised as ValueError *)
OtherClientFailures ==
    {"Unknown datetime string format", "Column not found in climate data"}

ServerFailures == {"Climate data not found", "MODEL.predict failed"}

(* the failure conditions as conditions on the request and its environment *)
EntityUnresolvable == CityNameOf(city_code) \notin DOMAIN env.meta

HistoryReadable ==
    /\ ~EntityUnresolvable
    /\ end_date # InvalidDate
    /\ env.file_exists
    /\ HasCol(env.columns, "Date")
    /\ HasCol(env.columns, "City")

NoHistory == HistoryReadable /\ Available = {}

FeatureColumnsAbsent ==
    /\ HistoryReadable
    /\ Available # {}
    /\ city_name \in DOMAIN env.scalers
    /\ \E k \in 1..Len(env.scalers[city_name].features) :
          env.scalers[city_name].features[k] \notin env.columns

NamedConditionsAreClient ==
    /\ EntityUnresolvable =>
          response.status = 400 /\ detail = "City not found in meta_info.csv"
    /\ NoHistory => response.status = 400 /\ detail = "No climate data"
    /\ FeatureColumnsAbsent =>
          response.status = 400 /\ detail = "Missing feature columns"
    /\ detail \in NamedFailures => calls["model"] = 0

(* C15 as stated: the three named conditions are surfaced as HTTP 400 with  *)
(* the model never invoked, and every other failure as HTTP 500.            *)
C15_OnlyNamedAreClient ==
    (Replied /\ response.status # 200) =>
        /\ NamedConditionsAreClient
        /\ response.status = 400 <=> detail \in NamedFailures
        /\ response.status = 500 <=> detail \notin NamedFailures

(* C15 amended: a failure raised as ValueError is surfaced as HTTP 400:     *)
(* the three named conditions and also an end date that cannot be parsed    *)
(* and a history sheet without its Date or City column; a failure of any    *)
(* other exception type is surfaced as HTTP 500; for a request failing with *)
(* any of the HTTP 400 conditions the model is never invoked.               *)
C15_ValueErrorsAreClient ==
    (Replied /\ response.status # 200) =>
        /\ NamedConditionsAreClient
        /\ detail \in NamedFailures \cup OtherClientFailures \cup ServerFailures
        /\ response.status = 400 <=> exc = "ValueError"
        /\ response.status = 400 <=> detail \in NamedFailures \cup OtherClientFailures
        /\ response.status = 500 <=> detail \in ServerFailures
        /\ response.status = 400 => calls["model"] = 0

(* an unparsable end date for a known entity is answered with HTTP 400 *)
C15_Witness ==
    /\ Replied
    /\ response.status = 400
    /\ city_name = "Hanoi"
    /\ end_date = InvalidDate
    /\ detail = "Unknown datetime string format"
    /\ calls["meta"] = 1
    /\ calls["model"] = 0

====
